---- MODULE Spec2Model ----
(***************************************************************************)
(* Model of the NR-06 RAG agent (src/rag.py): construction of AgenteNR06   *)
(* (PDF check, load-or-build of the FAISS vectorstore, retriever + chain), *)
(* the per-query pipeline (index search, MMR, cross-encoder rerank,        *)
(* formatar_documentos, generation) and the interactive loop.              *)
(*                                                                         *)
(* The process is modelled across restarts: the vectorstore directory, the *)
(* PDF and the EMBEDDING_MODEL environment variable outlive a run.         *)
(***************************************************************************)
EXTENDS Integers, Sequences, FiniteSets, TLC

\* ------------------------------------------------------------- Config ----
CHUNK_SIZE == 1200
CHUNK_OVERLAP == 200
TOP_K == 4
FETCH_K == 10
USE_MMR == TRUE
USE_RERANKER == TRUE

\* ------------------------------------------------------------- bounds ----
\* Distinct question texts a user may type.
NumPerguntas == 2
\* Loop iterations that reach perguntar (or hit EOF) in one session.
MaxPerguntas == 2

Perguntas == 1..NumPerguntas

\* Values EMBEDDING_MODEL may take (os.environ); the first is the default.
\* Two of them produce vectors of the same dimension, one does not.
ModeloPadrao == "MiniLM-L12"
Modelos == {"MiniLM-L12", "MiniLM-L6", "mpnet-base"}
Dim(m) == IF m = "mpnet-base" THEN 768 ELSE 384
ModeloNum(m) == CASE m = "MiniLM-L12" -> 1 [] m = "MiniLM-L6" -> 2 [] OTHER -> 3

\* PDFs the agent may be pointed at: each is the sequence of its pages' text
\* lengths (in characters, as measured by length_function=len).
Documentos ==
    { <<0>>, <<700>>, <<1200, 2200>>, <<3200, 0, 2200>>, <<5200, 6200>> }

\* Input budgets (in characters) the generation model may have.
Orcamentos == {2048, 4096, 8192}

\* Python's None, and a vectorstore directory that exists but cannot be read
\* back (a save that stopped half way).
None == [none |-> TRUE]
Corrompido == [corrompido |-> TRUE]

\* ------------------------------------------------------------ helpers ----
Min(a, b) == IF a < b THEN a ELSE b

RECURSIVE SumSeq(_)
SumSeq(s) == IF s = <<>> THEN 0 ELSE Head(s) + SumSeq(Tail(s))

RECURSIVE Concat(_)
Concat(ss) == IF ss = <<>> THEN <<>> ELSE Head(ss) \o Concat(Tail(ss))

Range(s) == { s[i] : i \in DOMAIN s }

\* --------------------------------------- carregar_e_dividir_documento ----
\* PyPDFLoader.load(): one Document per page, metadata["page"] 0-based.
\* page_content is identified by the page it comes from and its extent.
LoaderLoad(pdf) ==
    [ i \in DOMAIN pdf |->
        [ page_content |-> [pag |-> i, ini |-> 0, len |-> pdf[i]],
          metadata     |-> [ k \in {"page"} |-> i - 1 ] ] ]

\* Variant that copies the 0-based page index unchanged.
AddPageNumberSemSoma(doc) ==
    IF "page" \in DOMAIN doc.metadata
    THEN [doc EXCEPT !.metadata =
             [ k \in DOMAIN doc.metadata \cup {"page_number"} |->
                 doc.metadata[IF k = "page_number" THEN "page" ELSE k] ]]
    ELSE doc

\* for doc in documentos: if "page" in doc.metadata: page_number = page + 1
AddPageNumber(doc) ==
    IF "page" \in DOMAIN doc.metadata
    THEN [doc EXCEPT !.metadata =
             [ k \in DOMAIN doc.metadata \cup {"page_number"} |->
                 IF k = "page_number" THEN doc.metadata["page"] + 1
                 ELSE doc.metadata[k] ]]
    ELSE doc

\* RecursiveCharacterTextSplitter on a page of separator-free text: windows
\* of chunk_size characters advancing by chunk_size - chunk_overlap; an empty
\* page yields nothing, a page that fits yields one chunk. Every chunk keeps
\* a copy of its page's metadata.
NumChunks(len) ==
    IF len = 0 THEN 0
    ELSE IF len <= CHUNK_SIZE THEN 1
    ELSE ((len - CHUNK_OVERLAP) + (CHUNK_SIZE - CHUNK_OVERLAP) - 1)
             \div (CHUNK_SIZE - CHUNK_OVERLAP)

SplitPage(doc) ==
    LET len  == doc.page_content.len
        step == CHUNK_SIZE - CHUNK_OVERLAP
    IN  [ j \in 1..NumChunks(len) |->
            [ page_content |-> [pag |-> doc.page_content.pag,
                                ini |-> (j - 1) * step,
                                len |-> Min(CHUNK_SIZE, len - (j - 1) * step)],
              metadata     |-> doc.metadata ] ]

SplitDocuments(docs) == Concat([ i \in DOMAIN docs |-> SplitPage(docs[i]) ])

carregar_e_dividir_documento(pdf) ==
    LET documentos == LoaderLoad(pdf)
        numerados  == [ i \in DOMAIN documentos |-> AddPageNumber(documentos[i]) ]
    IN  SplitDocuments(numerados)

\* ---------------------------------------------- embedding provider stub ----
\* HuggingFaceEmbeddings is an external model: a deterministic function of
\* the model name and the text. Only the similarities of the vectors it
\* produces matter here, so the provider is represented by two fixed tables:
\* the similarity of question q (embedded by model mq) to entry i of an index
\* whose vectors were produced by model mi, and the similarity between two
\* entries of that index. Vectors are normalised, so an entry's similarity to
\* itself is the maximum.
SimMax == 4
SimConsulta(mq, mi, q, i) ==
    (q * 5 + i * 3 + ModeloNum(mq) * 2 + ModeloNum(mi) * 7 + q * i) % (SimMax + 1)
SimEntradas(mi, i, j) ==
    IF i = j THEN SimMax
    ELSE ((i + j) * ModeloNum(mi) + i * j) % SimMax

\* HuggingFaceCrossEncoder.score stub: joint relevance of (question, chunk).
CrossEncoderScore(q, doc) ==
    (q * 3 + doc.page_content.pag * 2 + doc.page_content.ini \div 1000) % 3

\* ----------------------------------------------------------- FAISS index --
\* FAISS.from_documents(chunks, embeddings): one entry per chunk, in order.
\* "modelo" stands for the vectors themselves: which model produced them is a
\* property of their values (and fixes the index dimension), it is not a
\* field the store records. "embedding_function" embeds the questions.
FromDocuments(chunks, modelo) ==
    [docs |-> chunks, modelo |-> modelo, embedding_function |-> modelo]

\* What save_local writes: the vectors and the docstore, nothing else.
SaveLocal(vs) == [docs |-> vs.docs, modelo |-> vs.modelo]

\* FAISS.load_local(path, embeddings): the stored vectors and docstore, with
\* the embeddings object of this run attached.
LoadLocal(stored, embeddings) ==
    [docs |-> stored.docs, modelo |-> stored.modelo, embedding_function |-> embeddings]

\* index.search asserts that the query vector has the index's dimension.
DimensaoCompativel(vs) == Dim(vs.embedding_function) = Dim(vs.modelo)

\* The first element of S, in increasing order, on which f is greatest
\* (np.argmax, and a strict ">" scan, both keep the earliest of equals).
ArgMaxFirst(f, S) ==
    CHOOSE i \in S : \A j \in S : f[j] < f[i] \/ (f[j] = f[i] /\ i <= j)

RECURSIVE TopSim(_, _, _)
TopSim(f, S, n) ==
    IF n = 0 \/ S = {} THEN <<>>
    ELSE LET b == ArgMaxFirst(f, S) IN <<b>> \o TopSim(f, S \ {b}, n - 1)

\* index.search(query_vector, fetch_k): the entries nearest to the question,
\* best first, at most fetch_k of them.
IndexSearch(vs, q, fetch_k) ==
    LET f == [ i \in DOMAIN vs.docs |->
                 SimConsulta(vs.embedding_function, vs.modelo, q, i) ]
    IN  TopSim(f, DOMAIN vs.docs, fetch_k)

\* ------------------------------------------------------------------- MMR --
SetMax(S) == CHOOSE m \in S : \A x \in S : x <= m

\* "if i in idxs: continue"
MmrNaoSelecionados(n, idxs) == { i \in 1..n : i \notin Range(idxs) }

\* maximal_marginal_relevance(query, embedding_list, lambda_mult=0.5, k):
\* positions of the pool, the most similar first, then repeatedly the
\* unselected position maximising
\*   lambda * sim(query, i) - (1 - lambda) * max(sim(i, s) for s in selected)
\* (both sides doubled here, lambda being 1/2).
RECURSIVE MmrLoop(_, _, _, _)
MmrLoop(simQ, simE, idxs, k) ==
    IF Len(idxs) >= Min(k, Len(simQ)) THEN idxs
    ELSE LET rest  == MmrNaoSelecionados(Len(simQ), idxs)
             score == [ i \in rest |->
                          simQ[i] - SetMax({ simE[i][s] : s \in Range(idxs) }) ]
         IN  MmrLoop(simQ, simE, Append(idxs, ArgMaxFirst(score, rest)), k)

MaximalMarginalRelevance(simQ, simE, k) ==
    IF Min(k, Len(simQ)) <= 0 THEN <<>>
    ELSE MmrLoop(simQ, simE, <<ArgMaxFirst(simQ, DOMAIN simQ)>>, k)

\* FAISS.max_marginal_relevance_search: search fetch_k, run MMR over the
\* vectors found, return the documents at the selected positions.
\* "pool" holds entry numbers of the index.
MmrSelect(vs, q, pool, k) ==
    LET simQ == [ p \in DOMAIN pool |->
                    SimConsulta(vs.embedding_function, vs.modelo, q, pool[p]) ]
        simE == [ p \in DOMAIN pool |-> [ r \in DOMAIN pool |->
                    SimEntradas(vs.modelo, pool[p], pool[r]) ] ]
        idxs == MaximalMarginalRelevance(simQ, simE, k)
    IN  [ n \in DOMAIN idxs |-> pool[idxs[n]] ]

\* Base retriever built by criar_retriever: MMR or plain top-k similarity.
BaseRetrieverPool(vs, q) ==
    IF USE_MMR THEN IndexSearch(vs, q, FETCH_K) ELSE IndexSearch(vs, q, TOP_K)

\* Variant that passes fetch_k where k belongs.
BaseRetrieverSelectFetchK(vs, q, pool) == MmrSelect(vs, q, pool, FETCH_K)

BaseRetrieverSelect(vs, q, pool) ==
    IF USE_MMR THEN MmrSelect(vs, q, pool, TOP_K) ELSE pool

\* ---------------------------------------------------------------- rerank --
RECURSIVE SortByScoreDesc(_, _)
\* sorted(zip(docs, scores), key=score, reverse=True): stable, so equal
\* scores keep their incoming order.
SortByScoreDesc(items, f) ==
    IF items = <<>> THEN <<>>
    ELSE LET b == ArgMaxFirst([ p \in DOMAIN items |-> f[items[p]] ], DOMAIN items)
         IN  <<items[b]>> \o
             SortByScoreDesc([ p \in 1..(Len(items) - 1) |->
                                 IF p < b THEN items[p] ELSE items[p + 1] ], f)

\* CrossEncoderReranker.compress_documents(documents, query) with top_n:
\* "sel" holds entry numbers of the index.
CompressDocuments(vs, q, sel, top_n) ==
    LET f == [ i \in Range(sel) |-> CrossEncoderScore(q, vs.docs[i]) ]
    IN  SubSeq(SortByScoreDesc(sel, f), 1, Min(top_n, Len(sel)))

\* ---------------------------------------------------- formatar_documentos --
\* doc.metadata.get("page_number", doc.metadata.get("page", "")): the value
\* found, as a one-element sequence, or <<>> for the default "".
MetadataPage(md) ==
    IF "page_number" \in DOMAIN md THEN <<md["page_number"]>>
    ELSE IF "page" \in DOMAIN md THEN <<md["page"]>>
    ELSE <<>>

\* Python truthiness of that value: "" and 0 are false.
Truthy(page) == page # <<>> /\ page[1] # 0

Fonte(doc) ==
    LET page == MetadataPage(doc.metadata)
    IN  IF Truthy(page) THEN [marca |-> "Pagina", n |-> page[1]]
        ELSE [marca |-> "Fonte desconhecida", n |-> 0]

\* "\n\n---\n\n", kept as a token of its own between the blocks.
Delimitador == [sep |-> "---"]

RECURSIVE Join(_)
Join(partes) ==
    IF partes = <<>> THEN <<>>
    ELSE IF Len(partes) = 1 THEN partes
    ELSE <<Head(partes), Delimitador>> \o Join(Tail(partes))

\* One block per document: f"{fonte}\n{doc.page_content}".
formatar_documentos(docs) ==
    Join([ i \in DOMAIN docs |->
             [fonte |-> Fonte(docs[i]), texto |-> docs[i].page_content] ])

\* Length in characters of the rendered context.
Digitos(n) == IF n < 10 THEN 1 ELSE IF n < 100 THEN 2 ELSE 3
ComprimentoFonte(f) ==
    IF f.marca = "Pagina" THEN 9 + Digitos(f.n) ELSE 20
ComprimentoToken(t) ==
    IF t = Delimitador THEN 7
    ELSE ComprimentoFonte(t.fonte) + 1 + t.texto.len
Comprimento(contexto) ==
    SumSeq([ i \in DOMAIN contexto |-> ComprimentoToken(contexto[i]) ])

\* ==================================================================== state
VARIABLES
    pdf,             \* the document at Config.PDF_PATH (its pages' lengths)
    pdfExiste,       \* Config.PDF_PATH.exists()
    embeddingModel,  \* Config.EMBEDDING_MODEL of the current/next run
    disco,           \* Config.VECTORSTORE_PATH: None, Corrompido or a saved index
    pc,              \* position of the running process ("off": not running)
    host,            \* "main": main() + modo_interativo; "api": a caller of the class
    recriar,         \* recriar_vectorstore
    vectorstore,     \* self.vectorstore
    chain,           \* self.chain
    pergunta,        \* question being processed (0: none)
    pool,            \* entries returned by the index search (entry numbers)
    docsMMR,         \* entries selected by the base retriever
    docs,            \* entries that leave the retriever (after the reranker)
    contexto,        \* formatar_documentos(docs), sent to the generator
    orcamento,       \* input budget of the generator while a call is in flight
    existia,         \* history: VECTORSTORE_PATH existed when the run started
    carregou,        \* history: FAISS.load_local was called in this run
    construiu,       \* history: index construction was started in this run
    falha,           \* history: error that aborted __init__ ("nenhuma": none)
    resultado,       \* history: outcome of the last perguntar call
    rerankFalhou,    \* history: the reranker raised during the last query
    chamadas,        \* history: requests sent to the generator by the last perguntar
    nPerg,           \* loop iterations of this session that raised or asked
    falhas,          \* loop iterations of this session that raised Exception
    erros,           \* "Erro: ..." lines printed by the loop in this session
    saida            \* history: how the last run ended

ambiente == <<pdf, pdfExiste, embeddingModel>>
agente   == <<vectorstore, chain>>
consulta == <<pergunta, pool, docsMMR, docs, contexto, orcamento>>
historia == <<existia, carregou, construiu, falha>>
sessao   == <<nPerg, falhas, erros>>

vars == <<pdf, pdfExiste, embeddingModel, disco, pc, host, recriar,
          vectorstore, chain, pergunta, pool, docsMMR, docs, contexto,
          orcamento, existia, carregou, construiu, falha, resultado,
          rerankFalhou, chamadas, nPerg, falhas, erros, saida>>

PcConstrucao == {"verificar", "carregar", "construir", "cadeia"}
PcConsulta   == {"buscar", "rerank", "gerar"}

Init ==
    /\ pdf \in Documentos
    /\ pdfExiste = TRUE
    /\ embeddingModel = ModeloPadrao
    /\ disco = None
    /\ pc = "off"
    /\ host = "main"
    /\ recriar = FALSE
    /\ vectorstore = None
    /\ chain = None
    /\ pergunta = 0
    /\ pool = <<>>
    /\ docsMMR = <<>>
    /\ docs = <<>>
    /\ contexto = <<>>
    /\ orcamento = 0
    /\ existia = FALSE
    /\ carregou = FALSE
    /\ construiu = FALSE
    /\ falha = "nenhuma"
    /\ resultado = "nenhum"
    /\ rerankFalhou = FALSE
    /\ chamadas = 0
    /\ nPerg = 0
    /\ falhas = 0
    /\ erros = 0
    /\ saida = "nenhuma"

\* ------------------------------------------------ environment, between runs
MudarModelo(m) ==
    /\ pc = "off"
    /\ m # embeddingModel
    /\ embeddingModel' = m
    /\ UNCHANGED <<pdf, pdfExiste, disco, pc, host, recriar, agente, consulta,
                   historia, resultado, rerankFalhou, chamadas, sessao, saida>>

RemoverPdf ==
    /\ pc = "off"
    /\ pdfExiste
    /\ pdfExiste' = FALSE
    /\ UNCHANGED <<pdf, embeddingModel, disco, pc, host, recriar, agente, consulta,
                   historia, resultado, rerankFalhou, chamadas, sessao, saida>>

ReporPdf ==
    /\ pc = "off"
    /\ ~pdfExiste
    /\ pdfExiste' = TRUE
    /\ UNCHANGED <<pdf, embeddingModel, disco, pc, host, recriar, agente, consulta,
                   historia, resultado, rerankFalhou, chamadas, sessao, saida>>

ApagarVectorstore ==
    /\ pc = "off"
    /\ disco # None
    /\ disco' = None
    /\ UNCHANGED <<ambiente, pc, host, recriar, agente, consulta,
                   historia, resultado, rerankFalhou, chamadas, sessao, saida>>

\* ------------------------------------------------------ AgenteNR06.__init__
\* main() (recriar from sys.argv) or a caller of the class starts building an
\* agent: self.chain = None; self.vectorstore = None.
Iniciar(h, r) ==
    /\ pc = "off"
    /\ pc' = "verificar"
    /\ host' = h
    /\ recriar' = r
    /\ vectorstore' = None
    /\ chain' = None
    /\ existia' = (disco # None)
    /\ carregou' = FALSE
    /\ construiu' = FALSE
    /\ falha' = "nenhuma"
    /\ resultado' = "nenhum"
    /\ rerankFalhou' = FALSE
    /\ chamadas' = 0
    /\ nPerg' = 0
    /\ falhas' = 0
    /\ erros' = 0
    /\ saida' = "nenhuma"
    /\ UNCHANGED <<ambiente, disco, consulta>>

\* An exception leaves __init__. Under main() it reaches "except Exception":
\* ERRO FATAL, sys.exit(1). A caller of the class gets the exception; the
\* object it was building keeps whatever fields were already assigned.
Abortar(erro) ==
    /\ falha' = erro
    /\ IF host = "main"
       THEN pc' = "off" /\ saida' = "fatal"
       ELSE pc' = "abortado" /\ saida' = saida

\* Variant whose check always passes.
PdfSempreEncontrado(existe) == TRUE

\* verificar_pdf()
PdfEncontrado(existe) == existe

VerificarPdf ==
    /\ pc = "verificar"
    /\ IF PdfEncontrado(pdfExiste)
       THEN /\ pc' = "carregar"
            /\ UNCHANGED <<falha, saida>>
       ELSE Abortar("FileNotFoundError")
    /\ UNCHANGED <<ambiente, disco, host, recriar, agente, consulta, existia,
                   carregou, construiu, resultado, rerankFalhou, chamadas, sessao>>

\* Variant that loads the stored index whatever the flag says.
DeveCarregarSempre(r) == TRUE

\* "if not recriar_vectorstore:"
DeveCarregar(r) == ~r

\* Variant that treats a store built by another model as absent.
CarregarSeMesmoModelo(caminho, modelo) ==
    IF caminho = None THEN None
    ELSE IF caminho.modelo # modelo THEN None
    ELSE LoadLocal(caminho, modelo)

\* carregar_vectorstore_existente, the embeddings and FAISS.load_local
\* succeeding. Returns None without loading when the path does not exist.
CarregarVectorstoreExistente(caminho, modelo) ==
    IF caminho = None THEN None ELSE LoadLocal(caminho, modelo)

CarregarVectorstore ==
    /\ pc = "carregar"
    /\ \/ /\ ~DeveCarregar(recriar)
          /\ pc' = "construir"
          /\ UNCHANGED <<vectorstore, carregou, falha, saida>>
       \/ /\ DeveCarregar(recriar)
          /\ disco # Corrompido
          /\ vectorstore' = CarregarVectorstoreExistente(disco, embeddingModel)
          /\ carregou' = (vectorstore' # None)
          /\ pc' = "construir"
          /\ UNCHANGED <<falha, saida>>
       \/ \* the embedding model cannot be loaded, or the stored files cannot
          \* be read: the exception propagates
          /\ DeveCarregar(recriar)
          /\ disco # None
          /\ carregou' = TRUE
          /\ Abortar("IndexError")
          /\ UNCHANGED vectorstore
    /\ UNCHANGED <<ambiente, disco, host, recriar, chain, consulta, existia,
                   construiu, resultado, rerankFalhou, chamadas, sessao>>

\* "if self.vectorstore is None:" chunk, embed, build, save.
ConstruirVectorstore ==
    /\ pc = "construir"
    /\ \/ /\ vectorstore # None
          /\ pc' = "cadeia"
          /\ UNCHANGED <<vectorstore, disco, construiu, falha, saida>>
       \/ /\ vectorstore = None
          /\ pdfExiste
          /\ LET chunks == carregar_e_dividir_documento(pdf)
             IN  /\ chunks # <<>>
                 /\ vectorstore' = FromDocuments(chunks, embeddingModel)
                 /\ disco' = SaveLocal(vectorstore')
          /\ construiu' = TRUE
          /\ pc' = "cadeia"
          /\ UNCHANGED <<falha, saida>>
       \/ \* the PDF cannot be read, the embedding model cannot be loaded, or
          \* there is no chunk to index (FAISS.from_documents of an empty
          \* list raises): nothing is written
          /\ vectorstore = None
          /\ construiu' = TRUE
          /\ Abortar("IndexError")
          /\ UNCHANGED <<vectorstore, disco>>
       \/ \* save_local fails: the directory may be left unreadable
          /\ vectorstore = None
          /\ pdfExiste
          /\ carregar_e_dividir_documento(pdf) # <<>>
          /\ construiu' = TRUE
          /\ disco' \in {disco, Corrompido}
          /\ Abortar("IndexError")
          /\ UNCHANGED vectorstore
    /\ UNCHANGED <<ambiente, host, recriar, chain, consulta, existia,
                   carregou, resultado, rerankFalhou, chamadas, sessao>>

\* criar_retriever + construir_cadeia_rag: the chain is the composition
\* retriever -> formatar_documentos -> template -> llm -> parser.
ConstruirCadeiaRag ==
    [ k |-> TOP_K, fetch_k |-> FETCH_K, mmr |-> USE_MMR,
      reranker |-> USE_RERANKER, top_n |-> TOP_K ]

CriarCadeia ==
    /\ pc = "cadeia"
    /\ \/ /\ chain' = ConstruirCadeiaRag
          /\ pc' = "pronto"
          /\ UNCHANGED <<falha, saida>>
       \/ \* the cross-encoder (or the LLM client) cannot be created
          /\ Abortar("ChainError")
          /\ UNCHANGED chain
    /\ UNCHANGED <<ambiente, disco, host, recriar, vectorstore, consulta, existia,
                   carregou, construiu, resultado, rerankFalhou, chamadas, sessao>>

\* ------------------------------------------------------------ per query ---
\* Variant that keeps the documents of the finished query on the agent.
SemConsultaRetida ==
    /\ pergunta' = 0
    /\ UNCHANGED <<pool, docsMMR, docs, contexto>>
    /\ orcamento' = 0

\* What chain.invoke worked on lives in its call frames: nothing of a
\* finished query remains.
SemConsulta ==
    /\ pergunta' = 0
    /\ pool' = <<>>
    /\ docsMMR' = <<>>
    /\ docs' = <<>>
    /\ contexto' = <<>>
    /\ orcamento' = 0

\* Variant whose handler leaves the loop ("break" instead of "continue").
LacoAposExcecaoBreak == "off"

\* modo_interativo: "except Exception as e: print(Erro); continue" leaves the
\* loop at the next input().
LacoAposExcecao == "pronto"

\* An exception leaves perguntar (or input()). In modo_interativo it is
\* caught, printed, and the loop goes on; a caller of the class receives it
\* and the agent stays as it was.
Falhar(erro) ==
    /\ resultado' = erro
    /\ SemConsulta
    /\ IF host = "main"
       THEN /\ falhas' = falhas + 1
            /\ erros' = erros + 1
            /\ pc' = LacoAposExcecao
       ELSE /\ UNCHANGED <<falhas, erros>>
            /\ pc' = IF chain = None THEN "abortado" ELSE "pronto"

\* Variant without the guard of perguntar.
CadeiaNaoVerificada(c) == TRUE

\* "if not self.chain: raise RuntimeError"
CadeiaInicializada(c) == c # None

\* perguntar(pergunta): typed at the prompt of modo_interativo, or called on
\* the object by a caller of the class (who may hold an object whose
\* __init__ raised).
Perguntar(q) ==
    /\ pc \in {"pronto", "abortado"}
    /\ nPerg < MaxPerguntas
    /\ nPerg' = nPerg + 1
    /\ rerankFalhou' = FALSE
    /\ chamadas' = 0
    /\ IF CadeiaInicializada(chain)
       THEN /\ pc' = "buscar"
            /\ pergunta' = q
            /\ resultado' = "nenhum"
            /\ UNCHANGED <<pool, docsMMR, docs, contexto, orcamento, falhas, erros>>
       ELSE Falhar("RuntimeError")
    /\ UNCHANGED <<ambiente, disco, host, recriar, agente, historia, saida>>

\* chain.invoke, first stage: embed the question, search the index, select.
Buscar ==
    /\ pc = "buscar"
    /\ \/ /\ vectorstore # None
          /\ DimensaoCompativel(vectorstore)
          /\ pool' = BaseRetrieverPool(vectorstore, pergunta)
          /\ docsMMR' = BaseRetrieverSelect(vectorstore, pergunta, pool')
          /\ pc' = "rerank"
          /\ UNCHANGED <<pergunta, docs, contexto, orcamento, resultado, falhas, erros>>
       \/ \* the query vector does not have the dimension of the index
          /\ vectorstore # None
          /\ ~DimensaoCompativel(vectorstore)
          /\ Falhar("AssertionError")
       \/ \* the embedding of the question fails
          Falhar("RetrievalError")
    /\ UNCHANGED <<ambiente, disco, host, recriar, agente, historia,
                   rerankFalhou, chamadas, nPerg, saida>>

\* Variant that hands the whole search result to the compressor.
EntradaDoRerankerPool(candidatos, selecionados) == candidatos

\* ContextualCompressionRetriever(base_compressor=reranker,
\* base_retriever=retriever): what the base retriever selected is what the
\* compressor receives.
EntradaDoReranker(candidatos, selecionados) == selecionados

\* ContextualCompressionRetriever._get_relevant_documents: no compression of
\* an empty list; otherwise the compressor's output.
CompressionRetriever(vs, q, candidatos, selecionados) ==
    LET entrada == EntradaDoReranker(candidatos, selecionados)
    IN  IF ~USE_RERANKER THEN selecionados
        ELSE IF entrada = <<>> THEN <<>>
        ELSE CompressDocuments(vs, q, entrada, TOP_K)

Documentos_de(vs, entradas) == [ i \in DOMAIN entradas |-> vs.docs[entradas[i]] ]

\* Second stage: rerank, then formatar_documentos and the prompt template;
\* the request goes to the generator.
Rerank ==
    /\ pc = "rerank"
    /\ \/ /\ docs' = CompressionRetriever(vectorstore, pergunta, pool, docsMMR)
          /\ contexto' = formatar_documentos(Documentos_de(vectorstore, docs'))
          /\ orcamento' \in Orcamentos
          /\ pc' = "gerar"
          /\ chamadas' = chamadas + 1
          /\ UNCHANGED <<pergunta, pool, docsMMR, resultado, rerankFalhou, falhas, erros>>
       \/ \* the cross-encoder raises while scoring: nothing catches it
          \* before it leaves chain.invoke
          /\ USE_RERANKER
          /\ docsMMR # <<>>
          /\ rerankFalhou' = TRUE
          /\ UNCHANGED chamadas
          /\ Falhar("RerankError")
    /\ UNCHANGED <<ambiente, disco, host, recriar, agente, historia, nPerg, saida>>

\* Third stage: the generator answers, or the call fails.
Gerar ==
    /\ pc = "gerar"
    /\ \/ /\ resultado' = "resposta"
          /\ SemConsulta
          /\ pc' = "pronto"
          /\ UNCHANGED <<falhas, erros>>
       \/ Falhar("GenerationError")
    /\ UNCHANGED <<ambiente, disco, host, recriar, agente, historia,
                   rerankFalhou, chamadas, nPerg, saida>>

\* --------------------------------------------------------- modo_interativo
\* 'sair', 'exit', 'quit', 'q': break; main() returns.
ComandoSair ==
    /\ pc = "pronto"
    /\ host = "main"
    /\ pc' = "off"
    /\ saida' = "comando"
    /\ UNCHANGED <<ambiente, disco, host, recriar, agente, consulta, historia,
                   resultado, rerankFalhou, chamadas, sessao>>

\* 'limpar' or an empty line: continue, nothing else happens.
EntradaSemPergunta ==
    /\ pc = "pronto"
    /\ host = "main"
    /\ UNCHANGED vars

\* input() raises EOFError (stdin closed): caught by "except Exception".
EntradaEOF ==
    /\ pc = "pronto"
    /\ host = "main"
    /\ nPerg < MaxPerguntas
    /\ nPerg' = nPerg + 1
    /\ Falhar("EOFError")
    /\ UNCHANGED <<ambiente, disco, host, recriar, agente, historia,
                   rerankFalhou, chamadas, saida>>

\* KeyboardInterrupt: inside the loop "break", elsewhere in main()
\* sys.exit(0). Either way the process ends.
Interrupcao ==
    /\ pc \in PcConstrucao \cup PcConsulta \cup {"pronto"}
    /\ host = "main"
    /\ pc' = "off"
    /\ saida' = "interrupcao"
    /\ SemConsulta
    /\ UNCHANGED <<ambiente, disco, host, recriar, agente, historia,
                   resultado, rerankFalhou, chamadas, sessao>>

\* A caller of the class drops the object.
Descartar ==
    /\ pc \in {"pronto", "abortado"}
    /\ host = "api"
    /\ pc' = "off"
    /\ saida' = "descartado"
    /\ UNCHANGED <<ambiente, disco, host, recriar, agente, consulta, historia,
                   resultado, rerankFalhou, chamadas, sessao>>

Next ==
    \/ \E m \in Modelos : MudarModelo(m)
    \/ RemoverPdf
    \/ ReporPdf
    \/ ApagarVectorstore
    \/ \E h \in {"main", "api"}, r \in BOOLEAN : Iniciar(h, r)
    \/ VerificarPdf
    \/ CarregarVectorstore
    \/ ConstruirVectorstore
    \/ CriarCadeia
    \/ \E q \in Perguntas : Perguntar(q)
    \/ Buscar
    \/ Rerank
    \/ Gerar
    \/ ComandoSair
    \/ EntradaSemPergunta
    \/ EntradaEOF
    \/ Interrupcao
    \/ Descartar

Spec == Init /\ [][Next]_vars

\* ================================================================== claims
\* Lifecycle phase of the agent object.
Fase ==
    IF pc = "off" THEN "Off"
    ELSE IF vectorstore = None THEN "Idle"
    ELSE IF chain = None THEN "Indexed"
    ELSE IF pc \in PcConsulta THEN "Answering"
    ELSE "Ready"

TransicoesDeFase ==
    { <<"Off", "Idle">>, <<"Idle", "Indexed">>, <<"Indexed", "Ready">>,
      <<"Ready", "Answering">>, <<"Answering", "Ready">> }

\* C1: the agent only moves Idle -> Indexed -> Ready -> Answering -> Ready
\* (or ends); a query is in progress only with both the index and the chain
\* constructed; the chain never exists without an index; and perguntar on an
\* agent whose chain is not constructed raises RuntimeError and starts no
\* query.
C1_Lifecycle ==
    [][ /\ \/ Fase' = Fase
           \/ Fase' = "Off"
           \/ <<Fase, Fase'>> \in TransicoesDeFase
        /\ pc' \in PcConsulta => (chain' # None /\ vectorstore' # None)
        /\ chain' # None => vectorstore' # None
        /\ (nPerg' = nPerg + 1 /\ chain = None)
              => (resultado' = "RuntimeError" /\ pc' \notin PcConsulta /\ Fase' = Fase)
      ]_vars

\* An agent whose construction stopped after the index was in place has been
\* asked a question and raised.
C1_Witness ==
    /\ pc = "abortado"
    /\ vectorstore # None
    /\ chain = None
    /\ resultado = "RuntimeError"

\* C2: index construction runs only when a rebuild is requested or no stored
\* index exists, the stored index is loaded only when no rebuild is requested
\* and it exists, and once the agent is Ready exactly one of the two has
\* produced the index: a build iff (recriar or store absent), a load
\* otherwise.
C2_BuildOrLoad ==
    /\ construiu => (recriar \/ ~existia)
    /\ carregou => (~recriar /\ existia)
    /\ (pc \in PcConsulta \cup {"pronto"}) =>
          /\ vectorstore # None
          /\ construiu <=> (recriar \/ ~existia)
          /\ carregou <=> (~recriar /\ existia)
          /\ carregou # construiu

\* A stored index existed, no rebuild was requested, and the agent is Ready
\* on the loaded index.
C2_Witness ==
    /\ pc = "pronto"
    /\ existia
    /\ ~recriar
    /\ carregou
    /\ ~construiu

\* C3 (as claimed): when the reranker raises during a query, the query goes
\* on with the un-reranked MMR selection truncated to topN and ends with an
\* answer, not with an error.
C3_RerankDegradesGracefully ==
    rerankFalhou =>
        \/ /\ pc = "gerar"
           /\ docs = SubSeq(docsMMR, 1, Min(TOP_K, Len(docsMMR)))
        \/ /\ pc = "pronto"
           /\ resultado = "resposta"

\* C4: in modo_interativo every failed iteration is reported and the loop
\* is back at its prompt, and the session ends only on an exit command or a
\* user interrupt.
C4_LoopSurvivesFailures ==
    [][ host = "main" =>
          /\ falhas' = falhas + 1 => (erros' = erros + 1 /\ pc' = "pronto")
          /\ (pc \in PcConsulta \cup {"pronto"} /\ pc' = "off")
                => saida' \in {"comando", "interrupcao"}
      ]_vars

\* A query was answered after an earlier one of the same session failed.
C4_Witness ==
    /\ host = "main"
    /\ pc = "pronto"
    /\ falhas >= 1
    /\ erros = falhas
    /\ resultado = "resposta"

\* C5: a failure during construction aborts it: no agent with a failed
\* construction is ever at the prompt or processing a query, under main()
\* the process has ended with the fatal error, a partial agent never answers,
\* and with the PDF missing nothing is loaded or built, stored index or not.
C5_NoPartialStartup ==
    /\ falha # "nenhuma" => pc \in {"off", "abortado"}
    /\ (falha # "nenhuma" /\ host = "main") => (pc = "off" /\ saida = "fatal")
    /\ pc \in PcConsulta \cup {"pronto"} =>
          (falha = "nenhuma" /\ vectorstore # None /\ chain # None)
    /\ pc = "abortado" => resultado \in {"nenhum", "RuntimeError"}
    /\ pc \notin {"off", "verificar", "abortado"} => pdfExiste
    /\ falha = "FileNotFoundError" =>
          (~carregou /\ ~construiu /\ vectorstore = None /\ chain = None)

\* main() ended with the fatal error for a missing PDF although a stored
\* index was there.
C5_Witness ==
    /\ pc = "off"
    /\ host = "main"
    /\ saida = "fatal"
    /\ falha = "FileNotFoundError"
    /\ existia
    /\ disco # None

SemRepetidos(s) == Cardinality(Range(s)) = Len(s)

\* C6: what leaves the rerank stage is part of what the candidate stage
\* selected for the same query, without repetition, and at most topN = TOP_K
\* chunks.
C6_RerankSubset ==
    pc = "gerar" =>
        /\ Range(docs) \subseteq Range(docsMMR)
        /\ SemRepetidos(docs)
        /\ Len(docs) <= TOP_K

\* The search returned more than k candidates and the reranker reordered the
\* selection.
C6_Witness ==
    /\ pc = "gerar"
    /\ Len(pool) > TOP_K
    /\ docs # docsMMR

\* C7: the selection made over the candidates of the index search holds no
\* chunk twice and has exactly min(k, size of the pool) chunks; the pool is
\* the fetch_k nearest entries, or all of them when the index is smaller.
C7_MmrSelection ==
    pc \in {"rerank", "gerar"} =>
        /\ Len(pool) = Min(FETCH_K, Len(vectorstore.docs))
        /\ SemRepetidos(pool)
        /\ Range(docsMMR) \subseteq Range(pool)
        /\ SemRepetidos(docsMMR)
        /\ Len(docsMMR) = Min(TOP_K, Len(pool))

\* A pool smaller than k: the selection is the whole pool.
C7_Witness ==
    /\ pc = "rerank"
    /\ Len(pool) > 1
    /\ Len(pool) < TOP_K
    /\ Len(docsMMR) = Len(pool)

\* C8: the context is one block per retained chunk, in order, each made of
\* the marker [Pagina N] and the chunk's text, N being the 1-based number of
\* the page the text was cut from, with the delimiter between blocks.
C8_ContextCitations ==
    pc = "gerar" =>
        /\ Len(contexto) = (IF docs = <<>> THEN 0 ELSE 2 * Len(docs) - 1)
        /\ \A i \in DOMAIN docs :
              LET texto == vectorstore.docs[docs[i]].page_content
              IN  contexto[2 * i - 1] =
                      [fonte |-> [marca |-> "Pagina", n |-> texto.pag],
                       texto |-> texto]
        /\ \A i \in 1..(Len(docs) - 1) : contexto[2 * i] = Delimitador

\* Several chunks are rendered, one of them from the first page (loader page
\* index 0).
C8_Witness ==
    /\ pc = "gerar"
    /\ Len(docs) > 1
    /\ \E i \in DOMAIN docs : vectorstore.docs[docs[i]].metadata["page"] = 0
    /\ \E i \in DOMAIN docs : vectorstore.docs[docs[i]].metadata["page"] > 0

\* C9 (as claimed): the request sent to the generator never carries a
\* context longer than the generator's input budget.
C9_ContextWithinBudget ==
    pc = "gerar" => Comprimento(contexto) <= orcamento

\* The running agent works on a loaded index whose vectors come from another
\* model than the one embedding the questions.
ModelosDivergem ==
    /\ pc \notin {"off", "verificar", "carregar"}
    /\ carregou
    /\ vectorstore # None
    /\ vectorstore.modelo # vectorstore.embedding_function

\* C10 (as amended): with a stored index and no rebuild request the index is
\* loaded as it is, whatever model is configured now, and nothing is rebuilt;
\* questions are embedded by the configured model and compared with the
\* stored vectors; a query gets past the index search exactly when the two
\* models have the same dimension, and fails there otherwise.
C10_SilentReuse ==
    /\ (pc \in PcConsulta \cup {"construir", "cadeia", "pronto"}
            /\ ~recriar /\ existia) =>
          /\ carregou
          /\ ~construiu
          /\ vectorstore = LoadLocal(disco, embeddingModel)
          /\ vectorstore.modelo = disco.modelo
    /\ ModelosDivergem =>
          /\ pc \in {"rerank", "gerar"} => DimensaoCompativel(vectorstore)
          /\ resultado = "resposta" => DimensaoCompativel(vectorstore)
          /\ resultado = "AssertionError" => ~DimensaoCompativel(vectorstore)
          /\ (pc = "pronto" /\ resultado \notin {"nenhum", "EOFError", "RetrievalError"})
                => (DimensaoCompativel(vectorstore) <=> resultado # "AssertionError")

\* A question was answered on an index loaded from a store that another
\* model had built.
C10_Witness ==
    /\ ModelosDivergem
    /\ pc = "pronto"
    /\ ~construiu
    /\ resultado = "resposta"

\* C10 (as claimed): on a reused index built by another model the queries
\* are answered with no error.
C10_AnswersWithoutError ==
    ModelosDivergem => resultado # "AssertionError"

\* C11: processing queries, answered or failed, leaves self.vectorstore and
\* self.chain exactly as they were; a query starts with no candidates,
\* selection or context of an earlier one and leaves none behind; and a
\* query that is answered has sent exactly one request to the generator.
C11_QueriesReadOnly ==
    [][ /\ (pc \in PcConsulta \cup {"pronto", "abortado"} /\ pc' # "off")
              => (vectorstore' = vectorstore /\ chain' = chain)
        /\ (pc \notin PcConsulta /\ pc' \in PcConsulta)
              => (pool = <<>> /\ docsMMR = <<>> /\ docs = <<>> /\ contexto = <<>>
                  /\ chamadas' = 0)
        /\ (pc \in PcConsulta /\ pc' \notin PcConsulta)
              => (pool' = <<>> /\ docsMMR' = <<>> /\ docs' = <<>> /\ contexto' = <<>>)
        /\ (pc \in PcConsulta /\ resultado' = "resposta") => chamadas' = 1
        /\ chamadas' <= 1
      ]_vars

\* In one session a query failed and a later one was answered, with one
\* request to the generator and nothing of either query left.
C11_Witness ==
    /\ host = "main"
    /\ pc = "pronto"
    /\ nPerg >= 2
    /\ falhas >= 1
    /\ resultado = "resposta"
    /\ chamadas = 1
    /\ pool = <<>>
    /\ docs = <<>>

====
